---------------------------- MODULE Spec2Model ----------------------------
(***************************************************************************)
(* A model of the course-enrollment REST backend in src/index.js.          *)
(*                                                                         *)
(* The state is the four tables of the database, the wall clock and the    *)
(* requests in flight.  A handler is a chain of steps: the synchronous     *)
(* prefix that runs when the request arrives (verifyToken, the presence    *)
(* checks), then one step per awaited query.  The database executes each   *)
(* statement atomically; between two statements of one handler the         *)
(* statements of every other handler may run (no transaction is opened).   *)
(* Any query may fail, which the handler's catch block answers.            *)
(*                                                                         *)
(* JSON values: text fields are strings, with Undef for an absent field    *)
(* and Null for JSON null.  Id fields are naturals, 0 standing for every   *)
(* falsy id (absent, null, 0, ""), all of which take the same branch of    *)
(* the handlers' presence checks.  rows[0] of a result is a set of at most *)
(* one row, {} being JavaScript's undefined.                               *)
(***************************************************************************)
EXTENDS Naturals, Sequences, FiniteSets

VARIABLES users, courses, enrollments, reviews, seq, clock, issued, reqs

vars == <<users, courses, enrollments, reviews, seq, clock, issued, reqs>>

tables == <<users, courses, enrollments, reviews>>

-----------------------------------------------------------------------------
(* Bounds of the model: how many requests a run receives, per area. *)
MaxUserReqs == 2
MaxAuthReqs == 2
MaxTokenReqs == 2
MaxCourseReqs == 2
MaxEnrollReqs == 3
MaxReqs == 2
(* Clock ticks per second, and how far past the interesting instants the   *)
(* clock runs.                                                             *)
TicksPerSec == 2
MaxSlack == 1

-----------------------------------------------------------------------------
(* JSON values and the JavaScript truthiness the presence checks use. *)
Undef == "undefined"
Null == "null"

Falsy(v) == v \in {Undef, Null, ""}

FalsyId(n) == n = 0

(* Faulty variant: SET col = $n, without COALESCE. *)
CoalesceNone(param, col) == IF param = Undef THEN Null ELSE param

(* node-postgres sends undefined and null alike as SQL NULL; COALESCE($n, col) *)
(* keeps the column for NULL and takes the parameter otherwise.                *)
Coalesce(param, col) == IF param \in {Undef, Null} THEN col ELSE param

-----------------------------------------------------------------------------
(* bcrypt: the hash embeds the salt; compare re-hashes with that salt. *)
Salts == {1, 2}

Hash(plain, salt) == [salt |-> salt, of |-> plain]

Compare(plain, hashed) == Hash(plain, hashed.salt) = hashed

-----------------------------------------------------------------------------
(* jsonwebtoken.  sign stamps iat with the clock in whole seconds and sets *)
(* exp = iat + expiresIn; verify checks the signature and rejects once the *)
(* clock in whole seconds has reached exp.                                 *)
JWT_SECRET_KEY == "secret"

ExpiresIn == 7 * 24 * 60 * 60

Now == clock \div TicksPerSec

Sign(payloadId, key, now) ==
    [kind |-> "jwt", id |-> payloadId, iat |-> now, exp |-> now + ExpiresIn, key |-> key]

generateToken(userId) == Sign(userId, JWT_SECRET_KEY, Now)

(* The Authorization header as a sequence of lexemes: the text "Bearer "   *)
(* and compact tokens.                                                     *)
Bearer == [kind |-> "bearer", id |-> 0, iat |-> 0, exp |-> 0, key |-> ""]

NoHeader == [present |-> FALSE, value |-> <<>>]

Header(v) == [present |-> TRUE, value |-> v]

RECURSIVE Replace(_)
(* String.prototype.replace('Bearer ', ''): drops the first occurrence only. *)
Replace(s) ==
    IF s = <<>> THEN <<>>
    ELSE IF Head(s) = Bearer THEN Tail(s)
    ELSE <<Head(s)>> \o Replace(Tail(s))

(* Faulty variant: a token still passes in the second it expires. *)
JwtVerifiesLate(token, key, now) ==
    /\ Len(token) = 1
    /\ token[1].kind = "jwt"
    /\ token[1].key = key
    /\ now <= token[1].exp

JwtVerifies(token, key, now) ==
    /\ Len(token) = 1
    /\ token[1].kind = "jwt"
    /\ token[1].key = key
    /\ now < token[1].exp

-----------------------------------------------------------------------------
(* Requests. *)
NoBody ==
    [name |-> Undef, email |-> Undef, password |-> Undef, role |-> Undef,
     title |-> Undef, description |-> Undef, instructor_id |-> 0,
     courseId |-> 0, userId |-> 0, rating |-> Undef, comment |-> Undef]

NoParams == [id |-> 0, instructorId |-> 0, courseId |-> 0, userId |-> 0]

Idle ==
    [ep |-> "none", hdr |-> NoHeader, params |-> NoParams, body |-> NoBody,
     pc |-> "idle", at |-> 0, user |-> 0, status |-> 0,
     res |-> [key |-> "", text |-> "", data |-> {}],
     sent |-> 0, nq |-> 0, failed |-> FALSE, wrote |-> FALSE, seen |-> {}]

Slots == DOMAIN reqs

(* res.status(s).json({key: text, ...data}) followed by the handler's return. *)
Respond(q, status, key, text, data) ==
    [q EXCEPT !.pc = "done", !.status = status,
              !.res = [key |-> key, text |-> text, data |-> data],
              !.sent = @ + 1]

(* Faulty variant: a catch block that logs and sends nothing. *)
CatchSilent(q) == [q EXCEPT !.pc = "done"]

(* The catch block every handler ends with. *)
Catch(q) == Respond(q, 500, "error", "Server error", {})

(* One awaited con.query: the request has issued one more statement, which *)
(* the database carried out (ok) or rejected.                              *)
Query(q, ok) == [q EXCEPT !.nq = @ + 1, !.failed = ~ok]

(* Faulty variant: a middleware that calls next() whatever the header. *)
verifyTokenNoCheck(q) == [q EXCEPT !.pc = "next"]

verifyToken(q) ==
    LET token == Replace(q.hdr.value)
    IN  IF ~q.hdr.present \/ token = <<>>
        THEN Respond(q, 401, "message", "Access Denied: No Token Provided", {})
        ELSE IF JwtVerifies(token, JWT_SECRET_KEY, Now)
             THEN [q EXCEPT !.user = token[1].id, !.pc = "next"]
             ELSE Respond(q, 403, "message", "Invalid or Expired Token", {})

NextFree(r) ==
    /\ reqs[r].pc = "idle"
    /\ \A s \in Slots : s < r => reqs[s].pc # "idle"

Arrival(ep, hdr, params, body) ==
    [Idle EXCEPT !.ep = ep, !.hdr = hdr, !.params = params, !.body = body,
                 !.pc = "next", !.at = clock]

(* A step of request r: its record becomes q, the tables become u, c, e, v *)
(* and the sequences s.  wrote records whether a step of r changed a table. *)
Commit(r, q, u, c, e, v, s) ==
    /\ reqs' = [reqs EXCEPT ![r] =
                  [q EXCEPT !.wrote = q.wrote \/ <<u, c, e, v>> # tables]]
    /\ users' = u
    /\ courses' = c
    /\ enrollments' = e
    /\ reviews' = v
    /\ seq' = s

(* A step that leaves the clock and the issued tokens alone. *)
Step(r, q, u, c, e, v, s) ==
    /\ Commit(r, q, u, c, e, v, s)
    /\ UNCHANGED <<clock, issued>>

Read(r, q) == Step(r, q, users, courses, enrollments, reviews, seq)

-----------------------------------------------------------------------------
(* The database a run starts from: empty, or holding what earlier requests *)
(* left (one user, one course, one enrollment, one review).                *)
Emails == {"a@x", "b@x"}
Passwords == {"pw1", "pw2"}

SeedUser ==
    [id |-> 1, name |-> "ann", email |-> "a@x", password |-> Hash("pw1", 1),
     role |-> "student"]

SeedCourse == [id |-> 1, title |-> "t1", description |-> "d1", instructor_id |-> 1]

SeedEnrollment == [rid |-> 1, course_id |-> 1, user_id |-> 1]

SeedReview == [rid |-> 1, course_id |-> 1, user_id |-> 1, rating |-> "r4", comment |-> "c1"]

EmptyDb ==
    [users |-> {}, courses |-> {}, enrollments |-> {}, reviews |-> {},
     seq |-> [users |-> 0, courses |-> 0, enrollments |-> 0, reviews |-> 0]]

SeededDb ==
    [users |-> {SeedUser}, courses |-> {SeedCourse},
     enrollments |-> {SeedEnrollment}, reviews |-> {SeedReview},
     seq |-> [users |-> 1, courses |-> 1, enrollments |-> 1, reviews |-> 1]]

InitDb(db) ==
    /\ users = db.users
    /\ courses = db.courses
    /\ enrollments = db.enrollments
    /\ reviews = db.reviews
    /\ seq = db.seq

-----------------------------------------------------------------------------
(* POST /api/users/register *)
RecvRegister(r, In) ==
    /\ NextFree(r)
    /\ \E in \in In :
         LET body == [NoBody EXCEPT !.name = "ann", !.email = in.email,
                                    !.password = in.password, !.role = "student"]
             q == Arrival("register", NoHeader, NoParams, body)
         IN  Read(r, IF Falsy(body.name) \/ Falsy(body.email)
                        \/ Falsy(body.password) \/ Falsy(body.role)
                     THEN Respond(q, 400, "error", "All fields are required", {})
                     ELSE [q EXCEPT !.pc = "select"])

(* Faulty variant: 'User already exists' is sent without return, and the *)
(* handler goes on to hash and insert.                                  *)
RegisterSelectNoReturn(r) ==
    /\ reqs[r].ep = "register"
    /\ reqs[r].pc = "select"
    /\ \E ok \in BOOLEAN, salt \in Salts :
         LET q == Query(reqs[r], ok)
             rows == {u \in users : u.email = q.body.email}
             row == [id |-> seq.users + 1, name |-> q.body.name,
                     email |-> q.body.email,
                     password |-> Hash(q.body.password, salt),
                     role |-> q.body.role]
         IN  IF ~ok THEN Read(r, Catch(q))
             ELSE IF Cardinality(rows) > 0
                  THEN Step(r, Respond([q EXCEPT !.seen = rows], 400, "error",
                                       "User already exists", {}),
                            users \cup {row}, courses, enrollments, reviews,
                            [seq EXCEPT !.users = @ + 1])
                  ELSE Read(r, [q EXCEPT !.seen = rows, !.pc = "insert"])

RegisterSelect(r) ==
    /\ reqs[r].ep = "register"
    /\ reqs[r].pc = "select"
    /\ \E ok \in BOOLEAN :
         LET q == Query(reqs[r], ok)
             rows == {u \in users : u.email = q.body.email}
         IN  Read(r, IF ~ok THEN Catch(q)
                     ELSE IF Cardinality(rows) > 0
                          THEN Respond([q EXCEPT !.seen = rows], 400, "error",
                                       "User already exists", {})
                          ELSE [q EXCEPT !.seen = rows, !.pc = "insert"])

RegisterInsert(r) ==
    /\ reqs[r].ep = "register"
    /\ reqs[r].pc = "insert"
    /\ \E ok \in BOOLEAN, salt \in Salts :
         LET q == Query(reqs[r], ok)
             row == [id |-> seq.users + 1, name |-> q.body.name,
                     email |-> q.body.email,
                     password |-> Hash(q.body.password, salt),
                     role |-> q.body.role]
             returning == [id |-> row.id, name |-> row.name,
                           email |-> row.email, role |-> row.role]
         IN  IF ~ok
             THEN Read(r, Catch(q))
             ELSE Step(r, Respond(q, 201, "message", "User registered successfully",
                                  {returning}),
                       users \cup {row}, courses, enrollments, reviews,
                       [seq EXCEPT !.users = @ + 1])

-----------------------------------------------------------------------------
(* POST /api/users/login *)
RecvLogin(r, In) ==
    /\ NextFree(r)
    /\ \E in \in In :
         LET body == [NoBody EXCEPT !.email = in.email, !.password = in.password]
             q == Arrival("login", NoHeader, NoParams, body)
         IN  Read(r, IF Falsy(body.email) \/ Falsy(body.password)
                     THEN Respond(q, 400, "error", "All fields are required", {})
                     ELSE [q EXCEPT !.pc = "select"])

(* Faulty variant: an unknown email gets an answer of its own. *)
LoginAnswerTelling(q, rows, first) ==
    IF Cardinality(rows) = 0
    THEN Respond(q, 404, "error", "User not found", {})
    ELSE IF ~Compare(q.body.password, first.password)
         THEN Respond(q, 400, "error", "Invalid credentials", {})
         ELSE Respond(q, 200, "message", "Login successful",
                      {generateToken(first.id)})

(* The answer of login once the SELECT returned rows; first is rows[0],    *)
(* which is not read when there is no row.                                 *)
LoginAnswer(q, rows, first) ==
    IF Cardinality(rows) = 0
    THEN Respond(q, 400, "error", "Invalid credentials", {})
    ELSE IF ~Compare(q.body.password, first.password)
         THEN Respond(q, 400, "error", "Invalid credentials", {})
         ELSE Respond(q, 200, "message", "Login successful",
                      {generateToken(first.id)})

LoginSelect(r) ==
    /\ reqs[r].ep = "login"
    /\ reqs[r].pc = "select"
    /\ \E ok \in BOOLEAN :
         LET q == Query(reqs[r], ok)
             rows == {u \in users : u.email = q.body.email}
         IN  \E first \in IF rows = {} THEN {SeedUser} ELSE rows :
               LET a == IF ~ok THEN Catch(q)
                        ELSE LoginAnswer([q EXCEPT !.seen = rows], rows, first)
               IN  /\ Commit(r, a, users, courses, enrollments, reviews, seq)
                   /\ issued' = issued \cup {[token |-> t, at |-> clock] :
                                              t \in IF a.status = 200 THEN a.res.data ELSE {}}
                   /\ UNCHANGED clock

-----------------------------------------------------------------------------------------------------------------------------------------------------
(* undefined reaches the database as NULL. *)
ToSql(v) == IF v = Undef THEN Null ELSE v

(* A protected route: verifyToken first, then the handler's presence check. *)
Guarded(q, invalid, text) ==
    LET v == verifyToken(q)
    IN  IF v.pc = "done" THEN v
        ELSE IF invalid THEN Respond(v, 400, "error", text, {})
        ELSE v

-----------------------------------------------------------------------------
(* POST /api/courses *)
RecvAddCourse(r, In) ==
    /\ NextFree(r)
    /\ \E in \in In :
         LET body == [NoBody EXCEPT !.title = in.title,
                                    !.description = in.description,
                                    !.instructor_id = in.instructor_id]
             q == Guarded(Arrival("addCourse", in.hdr, NoParams, body),
                          Falsy(body.title) \/ FalsyId(body.instructor_id),
                          "Title and Instructor ID are required")
         IN  Read(r, IF q.pc = "done" THEN q ELSE [q EXCEPT !.pc = "insert"])

AddCourseInsert(r) ==
    /\ reqs[r].ep = "addCourse"
    /\ reqs[r].pc = "insert"
    /\ \E ok \in BOOLEAN :
         LET q == Query(reqs[r], ok)
             row == [id |-> seq.courses + 1, title |-> q.body.title,
                     description |-> ToSql(q.body.description),
                     instructor_id |-> q.body.instructor_id]
         IN  IF ~ok
             THEN Read(r, Catch(q))
             ELSE Step(r, Respond(q, 201, "message", "Course added successfully", {row}),
                       users, courses \cup {row}, enrollments, reviews,
                       [seq EXCEPT !.courses = @ + 1])

-----------------------------------------------------------------------------
(* PUT /api/courses/:id *)
RecvEditCourse(r, In) ==
    /\ NextFree(r)
    /\ \E in \in In :
         LET body == [NoBody EXCEPT !.title = in.title,
                                    !.description = in.description]
             q == Guarded(Arrival("editCourse", in.hdr,
                                  [NoParams EXCEPT !.id = in.id], body),
                          Falsy(body.title) /\ Falsy(body.description),
                          "At least one field (title or description) must be provided")
         IN  Read(r, IF q.pc = "done" THEN q ELSE [q EXCEPT !.pc = "select"])

EditCourseSelect(r) ==
    /\ reqs[r].ep = "editCourse"
    /\ reqs[r].pc = "select"
    /\ \E ok \in BOOLEAN :
         LET q == Query(reqs[r], ok)
             rows == {c \in courses : c.id = q.params.id}
         IN  Read(r, IF ~ok THEN Catch(q)
                     ELSE IF Cardinality(rows) = 0
                          THEN Respond([q EXCEPT !.seen = rows], 404, "error",
                                       "Course not found", {})
                          ELSE [q EXCEPT !.seen = rows, !.pc = "update"])

(* UPDATE Courses SET title = COALESCE($1, title),                         *)
(*                    description = COALESCE($2, description) WHERE id = $3 *)
UpdateCourseRow(c, title, description) ==
    [c EXCEPT !.title = Coalesce(title, c.title),
              !.description = Coalesce(description, c.description)]

EditCourseUpdate(r) ==
    /\ reqs[r].ep = "editCourse"
    /\ reqs[r].pc = "update"
    /\ \E ok \in BOOLEAN :
         LET q == Query(reqs[r], ok)
             hit == {c \in courses : c.id = q.params.id}
             returning == {UpdateCourseRow(c, q.body.title, q.body.description) : c \in hit}
         IN  IF ~ok
             THEN Read(r, Catch(q))
             ELSE Step(r, Respond([q EXCEPT !.seen = hit], 200, "message",
                                  "Course updated successfully", returning),
                       users, (courses \ hit) \cup returning, enrollments, reviews, seq)

-----------------------------------------------------------------------------
(* DELETE /api/courses/:id *)
RecvDeleteCourse(r, In) ==
    /\ NextFree(r)
    /\ \E in \in In :
         LET q == Guarded(Arrival("deleteCourse", in.hdr,
                                  [NoParams EXCEPT !.id = in.id], NoBody),
                          FALSE, "")
         IN  Read(r, IF q.pc = "done" THEN q ELSE [q EXCEPT !.pc = "select"])

DeleteCourseSelect(r) ==
    /\ reqs[r].ep = "deleteCourse"
    /\ reqs[r].pc = "select"
    /\ \E ok \in BOOLEAN :
         LET q == Query(reqs[r], ok)
             rows == {c \in courses : c.id = q.params.id}
         IN  Read(r, IF ~ok THEN Catch(q)
                     ELSE IF Cardinality(rows) = 0
                          THEN Respond([q EXCEPT !.seen = rows], 404, "error",
                                       "Course not found", {})
                          ELSE [q EXCEPT !.seen = rows, !.pc = "delete"])

DeleteCourseDelete(r) ==
    /\ reqs[r].ep = "deleteCourse"
    /\ reqs[r].pc = "delete"
    /\ \E ok \in BOOLEAN :
         LET q == Query(reqs[r], ok)
             hit == {c \in courses : c.id = q.params.id}
         IN  IF ~ok
             THEN Read(r, Catch(q))
             ELSE Step(r, Respond([q EXCEPT !.seen = hit], 200, "message",
                                  "Course deleted successfully", {}),
                       users, courses \ hit, enrollments, reviews, seq)

-----------------------------------------------------------------------------
(* GET /api/courses/:instructorId *)
RecvGetCourses(r, In) ==
    /\ NextFree(r)
    /\ \E in \in In :
         Read(r, [Arrival("getCourses", NoHeader,
                          [NoParams EXCEPT !.instructorId = in.instructorId],
                          NoBody) EXCEPT !.pc = "select"])

GetCoursesSelect(r) ==
    /\ reqs[r].ep = "getCourses"
    /\ reqs[r].pc = "select"
    /\ \E ok \in BOOLEAN :
         LET q == Query(reqs[r], ok)
             rows == {c \in courses : c.instructor_id = q.params.instructorId}
         IN  Read(r, IF ~ok THEN Catch(q)
                     ELSE Respond([q EXCEPT !.seen = rows], 200, "courses", "", rows))

-----------------------------------------------------------------------------
(* POST /api/enrollments *)
RecvEnroll(r, In) ==
    /\ NextFree(r)
    /\ \E in \in In :
         LET body == [NoBody EXCEPT !.courseId = in.courseId, !.userId = in.userId]
             q == Guarded(Arrival("enroll", in.hdr, NoParams, body),
                          FalsyId(body.courseId) \/ FalsyId(body.userId),
                          "Course ID and User ID are required")
         IN  Read(r, IF q.pc = "done" THEN q ELSE [q EXCEPT !.pc = "select"])

Enrolled(courseId, userId) ==
    {e \in enrollments : e.course_id = courseId /\ e.user_id = userId}

EnrollSelect(r) ==
    /\ reqs[r].ep = "enroll"
    /\ reqs[r].pc = "select"
    /\ \E ok \in BOOLEAN :
         LET q == Query(reqs[r], ok)
             rows == Enrolled(q.body.courseId, q.body.userId)
         IN  Read(r, IF ~ok THEN Catch(q)
                     ELSE IF Cardinality(rows) > 0
                          THEN Respond([q EXCEPT !.seen = rows], 400, "error",
                                       "User is already enrolled in this course", {})
                          ELSE [q EXCEPT !.seen = rows, !.pc = "insert"])

EnrollInsert(r) ==
    /\ reqs[r].ep = "enroll"
    /\ reqs[r].pc = "insert"
    /\ \E ok \in BOOLEAN :
         LET q == Query(reqs[r], ok)
             row == [rid |-> seq.enrollments + 1, course_id |-> q.body.courseId,
                     user_id |-> q.body.userId]
         IN  IF ~ok
             THEN Read(r, Catch(q))
             ELSE Step(r, Respond(q, 201, "message", "Enrollment successful", {row}),
                       users, courses, enrollments \cup {row}, reviews,
                       [seq EXCEPT !.enrollments = @ + 1])

-----------------------------------------------------------------------------
(* DELETE /api/enrollments *)
RecvDisenroll(r, In) ==
    /\ NextFree(r)
    /\ \E in \in In :
         LET body == [NoBody EXCEPT !.courseId = in.courseId, !.userId = in.userId]
             q == Guarded(Arrival("disenroll", in.hdr, NoParams, body),
                          FalsyId(body.courseId) \/ FalsyId(body.userId),
                          "Course ID and User ID are required")
         IN  Read(r, IF q.pc = "done" THEN q ELSE [q EXCEPT !.pc = "select"])

DisenrollSelect(r) ==
    /\ reqs[r].ep = "disenroll"
    /\ reqs[r].pc = "select"
    /\ \E ok \in BOOLEAN :
         LET q == Query(reqs[r], ok)
             rows == Enrolled(q.body.courseId, q.body.userId)
         IN  Read(r, IF ~ok THEN Catch(q)
                     ELSE IF Cardinality(rows) = 0
                          THEN Respond([q EXCEPT !.seen = rows], 404, "error",
                                       "Enrollment not found", {})
                          ELSE [q EXCEPT !.seen = rows, !.pc = "delete"])

(* DELETE FROM Enrollments WHERE course_id = $1 AND user_id = $2: the rows left. *)
(* Faulty variant: the two parameters of the DELETE swapped. *)
DeleteEnrollmentSwapped(courseId, userId) == enrollments \ Enrolled(userId, courseId)

DeleteEnrollment(courseId, userId) == enrollments \ Enrolled(courseId, userId)

DisenrollDelete(r) ==
    /\ reqs[r].ep = "disenroll"
    /\ reqs[r].pc = "delete"
    /\ \E ok \in BOOLEAN :
         LET q == Query(reqs[r], ok)
         IN  IF ~ok
             THEN Read(r, Catch(q))
             ELSE Step(r, Respond([q EXCEPT !.seen = Enrolled(q.body.courseId, q.body.userId)],
                                  200, "message", "Disenrollment successful", {}),
                       users, courses,
                       DeleteEnrollment(q.body.courseId, q.body.userId),
                       reviews, seq)

-----------------------------------------------------------------------------
(* GET /api/enrollments/:userId *)
RecvGetEnrolled(r, In) ==
    /\ NextFree(r)
    /\ \E in \in In :
         Read(r, [Arrival("getEnrolled", NoHeader,
                          [NoParams EXCEPT !.userId = in.userId], NoBody)
                    EXCEPT !.pc = "select"])

(* SELECT c.id, c.title, c.description, c.instructor_id FROM courses c     *)
(* JOIN Enrollments e ON c.id = e.course_id WHERE e.user_id = $1.  A course *)
(* comes once per matching enrollment row: copies counts them.             *)
EnrolledCourses(userId) ==
    {[id |-> c.id, title |-> c.title, description |-> c.description,
      instructor_id |-> c.instructor_id,
      copies |-> Cardinality(Enrolled(c.id, userId))] :
        c \in {d \in courses : Enrolled(d.id, userId) # {}}}

GetEnrolledSelect(r) ==
    /\ reqs[r].ep = "getEnrolled"
    /\ reqs[r].pc = "select"
    /\ \E ok \in BOOLEAN :
         LET q == Query(reqs[r], ok)
             rows == EnrolledCourses(q.params.userId)
         IN  Read(r, IF ~ok THEN Catch(q)
                     ELSE IF Cardinality(rows) = 0
                          THEN Respond([q EXCEPT !.seen = rows], 404, "message",
                                       "No enrolled courses found", {})
                          ELSE Respond([q EXCEPT !.seen = rows], 200,
                                       "enrolledCourses", "", rows))

-----------------------------------------------------------------------------
(* POST /api/courses/:courseId/reviews *)
RecvSubmitReview(r, In) ==
    /\ NextFree(r)
    /\ \E in \in In :
         LET body == [NoBody EXCEPT !.rating = in.rating, !.comment = in.comment,
                                    !.userId = in.userId]
             params == [NoParams EXCEPT !.courseId = in.courseId]
             q == Arrival("submitReview", NoHeader, params, body)
         IN  Read(r, IF FalsyId(params.courseId) \/ Falsy(body.rating)
                        \/ FalsyId(body.userId)
                     THEN Respond(q, 400, "error",
                                  "Course ID, Rating, and User ID are required", {})
                     ELSE [q EXCEPT !.pc = "insert"])

SubmitReviewInsert(r) ==
    /\ reqs[r].ep = "submitReview"
    /\ reqs[r].pc = "insert"
    /\ \E ok \in BOOLEAN :
         LET q == Query(reqs[r], ok)
             row == [rid |-> seq.reviews + 1, course_id |-> q.params.courseId,
                     user_id |-> q.body.userId, rating |-> q.body.rating,
                     comment |-> ToSql(q.body.comment)]
         IN  IF ~ok
             THEN Read(r, Catch(q))
             ELSE Step(r, Respond(q, 201, "message", "Feedback submitted successfully",
                                  {row}),
                       users, courses, enrollments, reviews \cup {row},
                       [seq EXCEPT !.reviews = @ + 1])

-----------------------------------------------------------------------------
(* PUT /api/courses/:courseId/reviews/:userId *)
RecvUpdateReview(r, In) ==
    /\ NextFree(r)
    /\ \E in \in In :
         LET body == [NoBody EXCEPT !.rating = in.rating, !.comment = in.comment]
             params == [NoParams EXCEPT !.courseId = in.courseId,
                                        !.userId = in.userId]
             q == Arrival("updateReview", NoHeader, params, body)
         IN  Read(r, IF Falsy(body.rating) /\ Falsy(body.comment)
                     THEN Respond(q, 400, "error",
                                  "At least one field (rating or comment) must be provided",
                                  {})
                     ELSE [q EXCEPT !.pc = "select"])

Reviewed(courseId, userId) ==
    {v \in reviews : v.course_id = courseId /\ v.user_id = userId}

UpdateReviewSelect(r) ==
    /\ reqs[r].ep = "updateReview"
    /\ reqs[r].pc = "select"
    /\ \E ok \in BOOLEAN :
         LET q == Query(reqs[r], ok)
             rows == Reviewed(q.params.courseId, q.params.userId)
         IN  Read(r, IF ~ok THEN Catch(q)
                     ELSE IF Cardinality(rows) = 0
                          THEN Respond([q EXCEPT !.seen = rows], 404, "error",
                                       "Review not found", {})
                          ELSE [q EXCEPT !.seen = rows, !.pc = "update"])

UpdateReviewRow(v, rating, comment) ==
    [v EXCEPT !.rating = Coalesce(rating, v.rating),
              !.comment = Coalesce(comment, v.comment)]

(* rows[0] of the RETURNING rows: any one of them, none when no row matched. *)
UpdateReviewUpdate(r) ==
    /\ reqs[r].ep = "updateReview"
    /\ reqs[r].pc = "update"
    /\ \E ok \in BOOLEAN :
         LET q == Query(reqs[r], ok)
             hit == Reviewed(q.params.courseId, q.params.userId)
             returning == {UpdateReviewRow(v, q.body.rating, q.body.comment) : v \in hit}
         IN  IF ~ok
             THEN Read(r, Catch(q))
             ELSE \E first \in IF returning = {} THEN {{}} ELSE {{v} : v \in returning} :
                    Step(r, Respond([q EXCEPT !.seen = hit], 200, "message",
                                    "Review updated successfully", first),
                         users, courses, enrollments,
                         (reviews \ hit) \cup returning, seq)

-----------------------------------------------------------------------------
(* GET /api/courses/:courseId/reviews *)
RecvGetReviews(r, In) ==
    /\ NextFree(r)
    /\ \E in \in In :
         Read(r, [Arrival("getReviews", NoHeader,
                          [NoParams EXCEPT !.courseId = in.courseId], NoBody)
                    EXCEPT !.pc = "select"])

(* SELECT r.rating, r.comment, u.name AS reviewer_name FROM Reviews r      *)
(* JOIN Users u ON r.user_id = u.id WHERE r.course_id = $1                 *)
CourseReviews(courseId) ==
    {[rid |-> p[1].rid, rating |-> p[1].rating, comment |-> p[1].comment,
      reviewer_name |-> p[2].name] :
        p \in {x \in reviews \X users :
                 x[1].course_id = courseId /\ x[1].user_id = x[2].id}}

GetReviewsSelect(r) ==
    /\ reqs[r].ep = "getReviews"
    /\ reqs[r].pc = "select"
    /\ \E ok \in BOOLEAN :
         LET q == Query(reqs[r], ok)
             rows == CourseReviews(q.params.courseId)
         IN  Read(r, IF ~ok THEN Catch(q)
                     ELSE IF Cardinality(rows) = 0
                          THEN Respond([q EXCEPT !.seen = rows], 404, "message",
                                       "No reviews found for this course", {})
                          ELSE Respond([q EXCEPT !.seen = rows], 200, "reviews", "", rows))

-----------------------------------------------------------------------------
(* Time passes: the clock moves to a later instant.  The instants kept are *)
(* the first ticks of the run and the ticks around one expiry period later. *)
WeekTicks == ExpiresIn * TicksPerSec

Instants ==
    (0..MaxSlack) \cup
    {t \in (WeekTicks - MaxSlack)..(WeekTicks + MaxSlack) : t >= 0}

Tick ==
    /\ \E t \in Instants : t > clock /\ clock' = t
    /\ UNCHANGED <<users, courses, enrollments, reviews, seq, issued, reqs>>

-----------------------------------------------------------------------------
(* What clients send. *)
SeedToken == Sign(1, JWT_SECRET_KEY, 0)

ForgedToken == Sign(1, "guess", 0)

Valid == Header(<<Bearer, SeedToken>>)

UserInputs == [email : {Undef} \cup Emails, password : Passwords]

AddCourseInputs ==
    {[hdr |-> Valid, title |-> b[1], description |-> b[2], instructor_id |-> b[3]] :
       b \in {<<"t2", "d2", 1>>, <<"t2", Undef, 1>>, <<Undef, "d2", 1>>, <<"t2", "d2", 0>>}}

EditCourseInputs ==
    {[hdr |-> Valid, id |-> id, title |-> b[1], description |-> b[2]] :
       id \in {1, 2},
       b \in {<<Undef, Undef>>, <<Undef, "d2">>, <<"t2", Undef>>, <<"t2", "d2">>,
              <<"", "d2">>, <<Null, "d2">>}}

DeleteCourseInputs == {[hdr |-> Valid, id |-> id] : id \in {1, 2}}

GetCoursesInputs == {[instructorId |-> i] : i \in {1, 2}}

EnrollInputs ==
    {[hdr |-> Valid, courseId |-> b[1], userId |-> b[2]] :
       b \in {<<0, 1>>, <<1, 1>>, <<1, 2>>}}

DisenrollInputs ==
    {[hdr |-> Valid, courseId |-> b[1], userId |-> b[2]] :
       b \in {<<1, 0>>, <<1, 1>>, <<1, 2>>}}

GetEnrolledInputs == {[userId |-> u] : u \in {1, 2}}

(* The tokens logins have returned. *)
Tokens == {i.token : i \in issued}

UsersOnlyDb == [EmptyDb EXCEPT !.users = {SeedUser}, !.seq.users = 1]

SeedIssued == {[token |-> SeedToken, at |-> 0]}

InitReqs(n) == reqs = [i \in 1..n |-> Idle]

-----------------------------------------------------------------------------
(* The users area: registration and login. *)
InitUsers ==
    /\ \E db \in {EmptyDb, SeededDb} : InitDb(db)
    /\ clock = 0
    /\ issued = {}
    /\ InitReqs(MaxUserReqs)

NextUsers ==
    \/ \E r \in Slots : RecvRegister(r, UserInputs)
    \/ \E r \in Slots : RegisterSelect(r)
    \/ \E r \in Slots : RegisterInsert(r)
    \/ \E r \in Slots : RecvLogin(r, UserInputs)
    \/ \E r \in Slots : LoginSelect(r)

SpecUsers == InitUsers /\ [][NextUsers]_vars

-----------------------------------------------------------------------------
(* The courses area. *)
InitCourses ==
    /\ \E db \in {UsersOnlyDb, SeededDb} : InitDb(db)
    /\ clock = 0
    /\ issued = SeedIssued
    /\ InitReqs(MaxCourseReqs)

NextCourses ==
    \/ \E r \in Slots : RecvAddCourse(r, AddCourseInputs)
    \/ \E r \in Slots : AddCourseInsert(r)
    \/ \E r \in Slots : RecvEditCourse(r, EditCourseInputs)
    \/ \E r \in Slots : EditCourseSelect(r)
    \/ \E r \in Slots : EditCourseUpdate(r)
    \/ \E r \in Slots : RecvDeleteCourse(r, DeleteCourseInputs)
    \/ \E r \in Slots : DeleteCourseSelect(r)
    \/ \E r \in Slots : DeleteCourseDelete(r)
    \/ \E r \in Slots : RecvGetCourses(r, GetCoursesInputs)
    \/ \E r \in Slots : GetCoursesSelect(r)

SpecCourses == InitCourses /\ [][NextCourses]_vars

-----------------------------------------------------------------------------
(* The enrollments area. *)
InitEnroll ==
    /\ InitDb(SeededDb)
    /\ clock = 0
    /\ issued = SeedIssued
    /\ InitReqs(MaxEnrollReqs)

NextEnroll ==
    \/ \E r \in Slots : RecvEnroll(r, EnrollInputs)
    \/ \E r \in Slots : EnrollSelect(r)
    \/ \E r \in Slots : EnrollInsert(r)
    \/ \E r \in Slots : RecvDisenroll(r, DisenrollInputs)
    \/ \E r \in Slots : DisenrollSelect(r)
    \/ \E r \in Slots : DisenrollDelete(r)
    \/ \E r \in Slots : RecvGetEnrolled(r, GetEnrolledInputs)
    \/ \E r \in Slots : GetEnrolledSelect(r)

SpecEnroll == InitEnroll /\ [][NextEnroll]_vars

-----------------------------------------------------------------------------
(* Token lifetime: logins, a protected route, and time passing.  A token   *)
(* of a login served at tick 0 is already out.                             *)
InitToken ==
    /\ InitDb(SeededDb)
    /\ clock = 0
    /\ issued = SeedIssued
    /\ InitReqs(MaxTokenReqs)

NextToken ==
    \/ Tick
    \/ \E r \in Slots : RecvLogin(r, [email : {"a@x"}, password : Passwords])
    \/ \E r \in Slots : LoginSelect(r)
    \/ \E r \in Slots :
         RecvDeleteCourse(r, {[hdr |-> Header(<<Bearer, t>>), id |-> 1] : t \in Tokens})
    \/ \E r \in Slots : DeleteCourseSelect(r)
    \/ \E r \in Slots : DeleteCourseDelete(r)

SpecToken == InitToken /\ [][NextToken]_vars

-----------------------------------------------------------------------------
(* The protected routes under every shape of Authorization header, one     *)
(* expiry period after the seed token was issued: the seed token has       *)
(* expired, a token issued now is valid.                                   *)
FreshToken == Sign(1, JWT_SECRET_KEY, ExpiresIn)

AuthHeaders ==
    {NoHeader, Header(<<Bearer>>), Header(<<Bearer, FreshToken>>),
     Header(<<FreshToken>>), Header(<<Bearer, SeedToken>>),
     Header(<<Bearer, ForgedToken>>), Header(<<Bearer, Bearer, FreshToken>>)}

InitAuth ==
    /\ InitDb(SeededDb)
    /\ clock = WeekTicks
    /\ issued = SeedIssued \cup {[token |-> FreshToken, at |-> WeekTicks]}
    /\ InitReqs(MaxAuthReqs)

NextAuth ==
    \/ \E r \in Slots :
         RecvAddCourse(r, {[hdr |-> h, title |-> "t2", description |-> "d2",
                            instructor_id |-> 1] : h \in AuthHeaders})
    \/ \E r \in Slots : AddCourseInsert(r)
    \/ \E r \in Slots :
         RecvEditCourse(r, {[hdr |-> h, id |-> 1, title |-> "t2",
                             description |-> Undef] : h \in AuthHeaders})
    \/ \E r \in Slots : EditCourseSelect(r)
    \/ \E r \in Slots : EditCourseUpdate(r)
    \/ \E r \in Slots : RecvDeleteCourse(r, {[hdr |-> h, id |-> 1] : h \in AuthHeaders})
    \/ \E r \in Slots : DeleteCourseSelect(r)
    \/ \E r \in Slots : DeleteCourseDelete(r)
    \/ \E r \in Slots :
         RecvEnroll(r, {[hdr |-> h, courseId |-> 1, userId |-> 2] : h \in AuthHeaders})
    \/ \E r \in Slots : EnrollSelect(r)
    \/ \E r \in Slots : EnrollInsert(r)
    \/ \E r \in Slots :
         RecvDisenroll(r, {[hdr |-> h, courseId |-> 1, userId |-> 1] : h \in AuthHeaders})
    \/ \E r \in Slots : DisenrollSelect(r)
    \/ \E r \in Slots : DisenrollDelete(r)

SpecAuth == InitAuth /\ [][NextAuth]_vars

-----------------------------------------------------------------------------
(* The whole API. *)
Forged == Header(<<Bearer, ForgedToken>>)

RegisterCore ==
    {[email |-> b[1], password |-> b[2]] :
       b \in {<<"a@x", "pw1">>, <<"b@x", "pw1">>, <<Undef, "pw1">>}}

LoginCore ==
    {[email |-> b[1], password |-> b[2]] :
       b \in {<<"a@x", "pw1">>, <<"a@x", "pw2">>, <<Undef, "pw1">>}}

AddCourseCore ==
    {[hdr |-> b[1], title |-> b[2], description |-> "d2", instructor_id |-> 1] :
       b \in {<<Valid, "t2">>, <<Valid, Undef>>, <<NoHeader, "t2">>, <<Forged, "t2">>}}

EditCourseCore ==
    {[hdr |-> b[1], id |-> b[2], title |-> b[3], description |-> Undef] :
       b \in {<<Valid, 1, "t2">>, <<Valid, 2, "t2">>, <<Valid, 1, Undef>>,
              <<NoHeader, 1, "t2">>}}

DeleteCourseCore ==
    {[hdr |-> b[1], id |-> b[2]] : b \in {<<Valid, 1>>, <<Valid, 2>>, <<Forged, 1>>}}

EnrollCore ==
    {[hdr |-> b[1], courseId |-> b[2], userId |-> b[3]] :
       b \in {<<Valid, 1, 1>>, <<Valid, 1, 2>>, <<Valid, 0, 1>>, <<NoHeader, 1, 2>>}}

DisenrollCore ==
    {[hdr |-> b[1], courseId |-> b[2], userId |-> b[3]] :
       b \in {<<Valid, 1, 1>>, <<Valid, 1, 2>>, <<Forged, 1, 1>>}}

SubmitReviewCore ==
    {[courseId |-> 1, userId |-> 1, rating |-> b[1], comment |-> b[2]] :
       b \in {<<"r5", Undef>>, <<Undef, "c2">>}}

UpdateReviewCore ==
    {[courseId |-> 1, userId |-> b[1], rating |-> b[2], comment |-> Undef] :
       b \in {<<1, "r5">>, <<2, "r5">>, <<1, Undef>>}}

GetReviewsCore == {[courseId |-> c] : c \in {1, 2}}

Init ==
    /\ InitDb(SeededDb)
    /\ clock = 0
    /\ issued = SeedIssued
    /\ InitReqs(MaxReqs)

Next ==
    \/ \E r \in Slots : RecvRegister(r, RegisterCore)
    \/ \E r \in Slots : RegisterSelect(r)
    \/ \E r \in Slots : RegisterInsert(r)
    \/ \E r \in Slots : RecvLogin(r, LoginCore)
    \/ \E r \in Slots : LoginSelect(r)
    \/ \E r \in Slots : RecvAddCourse(r, AddCourseCore)
    \/ \E r \in Slots : AddCourseInsert(r)
    \/ \E r \in Slots : RecvEditCourse(r, EditCourseCore)
    \/ \E r \in Slots : EditCourseSelect(r)
    \/ \E r \in Slots : EditCourseUpdate(r)
    \/ \E r \in Slots : RecvDeleteCourse(r, DeleteCourseCore)
    \/ \E r \in Slots : DeleteCourseSelect(r)
    \/ \E r \in Slots : DeleteCourseDelete(r)
    \/ \E r \in Slots : RecvGetCourses(r, {[instructorId |-> 1]})
    \/ \E r \in Slots : GetCoursesSelect(r)
    \/ \E r \in Slots : RecvEnroll(r, EnrollCore)
    \/ \E r \in Slots : EnrollSelect(r)
    \/ \E r \in Slots : EnrollInsert(r)
    \/ \E r \in Slots : RecvDisenroll(r, DisenrollCore)
    \/ \E r \in Slots : DisenrollSelect(r)
    \/ \E r \in Slots : DisenrollDelete(r)
    \/ \E r \in Slots : RecvGetEnrolled(r, GetEnrolledInputs)
    \/ \E r \in Slots : GetEnrolledSelect(r)
    \/ \E r \in Slots : RecvSubmitReview(r, SubmitReviewCore)
    \/ \E r \in Slots : SubmitReviewInsert(r)
    \/ \E r \in Slots : RecvUpdateReview(r, UpdateReviewCore)
    \/ \E r \in Slots : UpdateReviewSelect(r)
    \/ \E r \in Slots : UpdateReviewUpdate(r)
    \/ \E r \in Slots : RecvGetReviews(r, GetReviewsCore)
    \/ \E r \in Slots : GetReviewsSelect(r)

Spec == Init /\ [][Next]_vars

-----------------------------------------------------------------------------
(* Claims about the users area (SpecUsers). *)
Registers(e) ==
    {r \in Slots : reqs[r].ep = "register" /\ reqs[r].body.email = e}

(* C1: of the registrations that carry one email, with all four fields     *)
(* present and no database failure, at most one is answered 201 and every  *)
(* other one is answered 400 'User already exists'; the Users table never  *)
(* holds two rows with the same email.                                     *)
C1_OneRegistrationPerEmail ==
    (\A r \in Slots : ~reqs[r].failed) =>
        /\ \A u1, u2 \in users : u1.email = u2.email => u1 = u2
        /\ \A e \in Emails :
             /\ Cardinality({r \in Registers(e) : reqs[r].status = 201}) <= 1
             /\ \A r \in Registers(e) :
                  reqs[r].pc = "done" /\ reqs[r].status # 201 =>
                      /\ reqs[r].status = 400
                      /\ reqs[r].res.text = "User already exists"

LoginDone(r) ==
    /\ reqs[r].ep = "login"
    /\ reqs[r].pc = "done"
    /\ ~reqs[r].failed
    /\ ~Falsy(reqs[r].body.email)
    /\ ~Falsy(reqs[r].body.password)

UnknownEmail(r) == LoginDone(r) /\ reqs[r].seen = {}

WrongPassword(r) ==
    /\ LoginDone(r)
    /\ reqs[r].seen # {}
    /\ \A u \in reqs[r].seen : ~Compare(reqs[r].body.password, u.password)

(* C5: a login whose email matches no user and a login whose email matches *)
(* a user but whose password does not verify get the same response, 400    *)
(* with error 'Invalid credentials'; neither is issued a token and neither *)
(* changes the store.                                                      *)
C5_LoginIndistinguishable ==
    \A r1, r2 \in Slots :
        UnknownEmail(r1) /\ WrongPassword(r2) =>
            /\ reqs[r1].status = 400
            /\ reqs[r2].status = reqs[r1].status
            /\ reqs[r2].res = reqs[r1].res
            /\ reqs[r1].res = [key |-> "error", text |-> "Invalid credentials", data |-> {}]
            /\ ~reqs[r1].wrote /\ ~reqs[r2].wrote

C5_Witness ==
    \E r1, r2 \in Slots : UnknownEmail(r1) /\ WrongPassword(r2)

-----------------------------------------------------------------------------
(* Claims about the courses area (SpecCourses). *)
EditUpdates(r) ==
    /\ reqs[r].ep = "editCourse"
    /\ reqs[r].pc = "update"
    /\ reqs'[r].pc = "done"
    /\ reqs'[r].status = 200

(* C6: a successful course update that supplies only description leaves   *)
(* the stored title as it was, one that supplies only title leaves the     *)
(* description as it was; instructor_id and every other course row, and    *)
(* every other table, are unchanged.                                       *)
C6_PartialUpdateFrame ==
    [][\A r \in Slots :
         EditUpdates(r) =>
           LET id == reqs[r].params.id
               b == reqs[r].body
           IN  /\ {c \in courses' : c.id # id} = {c \in courses : c.id # id}
               /\ {c.id : c \in courses'} = {c.id : c \in courses}
               /\ \A c \in courses, d \in courses' :
                    c.id = id /\ d.id = id =>
                       /\ d.instructor_id = c.instructor_id
                       /\ (b.title = Undef => d.title = c.title)
                       /\ (b.description = Undef => d.description = c.description)
               /\ UNCHANGED <<users, enrollments, reviews>>]_vars

C6_Witness ==
    \E r \in Slots :
        /\ reqs[r].ep = "editCourse"
        /\ reqs[r].status = 200
        /\ reqs[r].body.title = Undef
        /\ reqs[r].body.description = "d2"
        /\ \E c \in courses :
             c.id = reqs[r].params.id /\ c.title = "t1" /\ c.description = "d2"

(* C9: every course update answered 200 carries the updated row in its     *)
(* response, and every update whose id is absent from Courses when its     *)
(* UPDATE runs is answered 404.                                            *)
C9_UpdateAnswers ==
    \A r \in Slots :
        reqs[r].ep = "editCourse" /\ reqs[r].pc = "done" =>
            /\ reqs[r].status = 200 => reqs[r].res.data # {}
            /\ (reqs[r].nq = 2 /\ ~reqs[r].failed /\ reqs[r].seen = {}) =>
                 reqs[r].status = 404

-----------------------------------------------------------------------------
(* Claims about the enrollments area (SpecEnroll). *)

(* C2: the Enrollments table holds at most one row per (course_id, user_id). *)
C2_OneEnrollmentPerPair ==
    \A e1, e2 \in enrollments :
        e1.course_id = e2.course_id /\ e1.user_id = e2.user_id => e1 = e2

Disenrolled(d, courseId, userId) ==
    /\ reqs[d].ep = "disenroll"
    /\ reqs[d].pc = "done"
    /\ reqs[d].status = 200
    /\ reqs[d].body.courseId = courseId
    /\ reqs[d].body.userId = userId

(* C7: a disenroll for a pair with no Enrollment row is answered 404 and   *)
(* changes nothing; once a disenroll for a pair was answered 200, a list   *)
(* of that user's enrolled courses that follows does not include the       *)
(* course, unless a row for the pair was inserted after the delete (a row  *)
(* newer than every row the delete found).                                 *)
C7_Disenroll ==
    [][/\ \A d \in Slots :
            ( /\ reqs[d].ep = "disenroll"
              /\ reqs[d].pc = "select"
              /\ reqs'[d].pc # "select"
              /\ ~reqs'[d].failed
              /\ Enrolled(reqs[d].body.courseId, reqs[d].body.userId) = {} )
            => /\ reqs'[d].pc = "done"
               /\ reqs'[d].status = 404
               /\ UNCHANGED tables
       /\ \A g, d \in Slots :
            ( /\ reqs[g].ep = "getEnrolled"
              /\ reqs[g].pc = "select"
              /\ reqs'[g].pc = "done"
              /\ ~reqs'[g].failed
              /\ Disenrolled(d, reqs[d].body.courseId, reqs[g].params.userId) )
            => \/ reqs[d].body.courseId \notin {c.id : c \in reqs'[g].res.data}
               \/ \E e \in Enrolled(reqs[d].body.courseId, reqs[d].body.userId) :
                    \A x \in reqs[d].seen : e.rid > x.rid
      ]_vars

C7_Witness ==
    \E g, d \in Slots :
        /\ Disenrolled(d, 1, 1)
        /\ reqs[g].ep = "getEnrolled"
        /\ reqs[g].pc = "done"
        /\ reqs[g].params.userId = 1
        /\ ~reqs[g].failed
        /\ 1 \notin {c.id : c \in reqs[g].res.data}
        /\ \E e \in Slots : reqs[e].ep = "disenroll" /\ reqs[e].status = 404

-----------------------------------------------------------------------------
(* Claims about token verification (SpecAuth, SpecToken). *)
Protected == {"addCourse", "editCourse", "deleteCourse", "enroll", "disenroll"}

Arrived(r) == reqs[r].pc # "idle"

Answered(r, statuses) == reqs[r].pc = "done" /\ reqs[r].status \in statuses

(* The request carries a token: its header holds more than the prefix. *)
CarriesToken(r) ==
    /\ reqs[r].hdr.present
    /\ \E k \in 1..Len(reqs[r].hdr.value) : reqs[r].hdr.value[k].kind = "jwt"

(* The token sent, the first 'Bearer ' dropped, is signed with the secret  *)
(* and not expired in the second the request arrived.                      *)
TokenGood(r) ==
    LET token == Replace(reqs[r].hdr.value)
    IN  /\ Len(token) = 1
        /\ token[1].kind = "jwt"
        /\ token[1].key = JWT_SECRET_KEY
        /\ token[1].exp > reqs[r].at \div TicksPerSec

(* C3: on every protected route the handler body runs, and issues a query, *)
(* only for a request whose token verifyToken accepted; a request with no  *)
(* token is answered 401, one whose token fails verification 403, and in   *)
(* both cases no query is issued and no table changes.                     *)
C3_Gate ==
    \A r \in Slots :
        reqs[r].ep \in Protected /\ Arrived(r) =>
            /\ ~CarriesToken(r) => Answered(r, {401})
            /\ CarriesToken(r) /\ ~TokenGood(r) => Answered(r, {403})
            /\ Answered(r, {401, 403}) => reqs[r].nq = 0 /\ ~reqs[r].wrote
            /\ ~Answered(r, {401, 403}) =>
                 /\ TokenGood(r)
                 /\ reqs[r].user = Replace(reqs[r].hdr.value)[1].id

C3_Witness ==
    \E r1, r2 \in Slots :
        /\ reqs[r1].ep \in Protected /\ Answered(r1, {403}) /\ CarriesToken(r1)
        /\ reqs[r2].ep \in Protected /\ Answered(r2, {200, 201}) /\ reqs[r2].wrote

Presents(r, token) ==
    /\ reqs[r].ep \in Protected
    /\ Arrived(r)
    /\ reqs[r].hdr = Header(<<Bearer, token>>)

(* C4: a token issued by a successful login at time t is accepted whenever *)
(* it is presented earlier than t + 7 days and rejected with 403 whenever  *)
(* it is presented after t + 7 days, whatever other requests were served.  *)
C4_SevenDays ==
    \A i \in issued, r \in Slots :
        Presents(r, i.token) =>
            /\ reqs[r].at < i.at + WeekTicks => ~Answered(r, {401, 403})
            /\ reqs[r].at > i.at + WeekTicks => Answered(r, {403})

(* C4 as amended: the token is accepted exactly when the whole second of   *)
(* the presentation is earlier than the whole second of t plus 7 days; so  *)
(* it is rejected with 403 at and after t + 7 days, and may be rejected    *)
(* up to one second before.                                                *)
C4_SevenDaysInSeconds ==
    \A i \in issued, r \in Slots :
        Presents(r, i.token) =>
            /\ reqs[r].at \div TicksPerSec < i.at \div TicksPerSec + ExpiresIn
                 => ~Answered(r, {401, 403})
            /\ reqs[r].at \div TicksPerSec >= i.at \div TicksPerSec + ExpiresIn
                 => Answered(r, {403})
            /\ reqs[r].at >= i.at + WeekTicks => Answered(r, {403})

(* A token of a login served in this run, presented in the last whole      *)
(* second before it expires: the handler ran.                              *)
C4_Witness ==
    \E i \in issued, l, r \in Slots :
        /\ reqs[l].ep = "login" /\ reqs[l].res.data = {i.token}
        /\ Presents(r, i.token)
        /\ reqs[r].at \div TicksPerSec + 1 = i.token.exp
        /\ Answered(r, {200})

-----------------------------------------------------------------------------
(* Claims about the whole API (Spec). *)

(* C8: in every handler, a request whose query failed, at the existence    *)
(* check or at the write, is answered 500 'Server error'; every request is *)
(* answered at most once, and a finished request exactly once.             *)
C8_FailureAnswered ==
    \A r \in Slots :
        /\ reqs[r].failed =>
             /\ reqs[r].pc = "done"
             /\ reqs[r].status = 500
             /\ reqs[r].res = [key |-> "error", text |-> "Server error", data |-> {}]
        /\ reqs[r].sent <= 1
        /\ reqs[r].pc = "done" <=> reqs[r].sent = 1

C8_Witness ==
    \E r1, r2 \in Slots :
        /\ reqs[r1].failed /\ reqs[r1].nq = 1 /\ reqs[r1].status = 500
        /\ reqs[r2].failed /\ reqs[r2].nq = 2 /\ reqs[r2].status = 500

(* C10: a request answered with an error status has changed no table; the  *)
(* requests that changed a table are answered 200 or 201.                  *)
C10_ErrorsWriteNothing ==
    \A r \in Slots :
        /\ Answered(r, {400, 401, 403, 404, 500}) => ~reqs[r].wrote
        /\ reqs[r].wrote => Answered(r, {200, 201})
        /\ Arrived(r) /\ reqs[r].pc = "done" =>
             reqs[r].status \in {200, 201, 400, 401, 403, 404, 500}

C10_Witness ==
    \E r1, r2 \in Slots :
        /\ Answered(r1, {500}) /\ reqs[r1].nq = 2 /\ ~reqs[r1].wrote
        /\ Answered(r2, {200, 201}) /\ reqs[r2].wrote

=============================================================================
